---- MODULE Spec2Model ----
(***************************************************************************)
(* State machine of the ClickHouse settings browser front end              *)
(* (window.SettingsApp): dataset load, facet controls, filter engine,      *)
(* facet counts, debounced search and URL state.                           *)
(*                                                                         *)
(* Strings that the code inspects character by character (names,           *)
(* descriptions, the search text) are TLA+ strings read with Len/SubSeq.   *)
(* The only whitespace character of the model is the space.                *)
(***************************************************************************)
EXTENDS Integers, Sequences, FiniteSets, TLC

VARIABLES
  pc,                   \* "start" | "fetching" | "ready" | "failed": progress of init()
  url,                  \* query string of window.location.href
  data,                 \* module variable `data` (NoData until loadData returns)
  searchInput,          \* els.searchInput.value
  versionSelect,        \* els.versionSelect: [options, value]
  changedOnly,          \* els.changedOnly.checked
  scopeGroup,           \* els.scopeGroup: [opts (DOM order), sel (.toggle.selected)]
  topicGroup,           \* els.topicGroup
  tierGroup,            \* els.tierGroup
  specialGroup,         \* els.specialGroup
  facetCounts,          \* counters shown on the pills, per contributing record
  list,                 \* rows of els.list, in order
  rendered,             \* the constants renderList read at its last run (lines 473-481)
  lastScopes,           \* module variable lastScopes
  lastApplyTopicFilter, \* module variable lastApplyTopicFilter
  quickTimer,           \* number of pending timers of the debounced quickList
  slowTimer,            \* number of pending timers of the debounced slowFacets
  lastClick,            \* the pill click handled by the last step, if it was one
  history,              \* window.history: [len, replaced (replaceState called by the last step)]
  console,              \* what console.error has been called with, in order
  errorBanner,          \* text of an error message in the document, "" when none
  tooltip,              \* tooltipEl, tooltipShowTimer, tooltipHideTimer and the element under the pointer
  copy,                 \* [clipboard (text on it), title (of the copy button last used), attempt (the last copy-link click)]
  nEvents               \* user events handled so far (model bound only)

vars == <<pc, url, data, searchInput, versionSelect, changedOnly, scopeGroup,
          topicGroup, tierGroup, specialGroup, facetCounts, list, rendered,
          lastScopes, lastApplyTopicFilter, quickTimer, slowTimer, lastClick,
          history, console, errorBanner, copy, tooltip, nEvents>>

\* Number of user events (clicks, selections, typing, reloads) explored.
MaxEvents == 1

-----------------------------------------------------------------------------
(* String primitives of the platform, as the code uses them.               *)

SeqToSet(s) == { s[i] : i \in 1..Len(s) }

SelectValues(order, S) == SelectSeq(order, LAMBDA x : x \in S)

CharAt(s, i) == SubSeq(s, i, i)

UpperChars == "ABCDEFGHIJKLMNOPQRSTUVWXYZ"
LowerChars == "abcdefghijklmnopqrstuvwxyz"
DigitChars == "0123456789"

LowerChar(c) ==
  IF \E k \in 1..Len(UpperChars) : CharAt(UpperChars, k) = c
  THEN CharAt(LowerChars, CHOOSE k \in 1..Len(UpperChars) : CharAt(UpperChars, k) = c)
  ELSE c

RECURSIVE toLowerCase(_)
toLowerCase(s) ==
  IF s = "" THEN "" ELSE LowerChar(CharAt(s, 1)) \o toLowerCase(SubSeq(s, 2, Len(s)))

IsSpace(c) == c = " "

RECURSIVE trimStart(_)
trimStart(s) ==
  IF s # "" /\ IsSpace(CharAt(s, 1)) THEN trimStart(SubSeq(s, 2, Len(s))) ELSE s

RECURSIVE trimEnd(_)
trimEnd(s) ==
  IF s # "" /\ IsSpace(CharAt(s, Len(s))) THEN trimEnd(SubSeq(s, 1, Len(s) - 1)) ELSE s

trim(s) == trimEnd(trimStart(s))

\* String.prototype.includes
includes(hay, t) ==
  \E i \in 1..(Len(hay) - Len(t) + 1) : SubSeq(hay, i, i + Len(t) - 1) = t

\* \w of a regular expression
IsWordChar(c) ==
  \/ \E k \in 1..Len(LowerChars) : CharAt(LowerChars, k) = c
  \/ \E k \in 1..Len(UpperChars) : CharAt(UpperChars, k) = c
  \/ \E k \in 1..Len(DigitChars) : CharAt(DigitChars, k) = c
  \/ c = "_"

\* /(^|\b)w(\b|_)/.test(t) for a word w made of word characters only
TestWordRe(t, w) ==
  \E i \in 1..(Len(t) - Len(w) + 1) :
     /\ SubSeq(t, i, i + Len(w) - 1) = w
     /\ (i = 1 \/ ~IsWordChar(CharAt(t, i - 1)))
     /\ LET j == i + Len(w)
        IN  j > Len(t) \/ ~IsWordChar(CharAt(t, j)) \/ CharAt(t, j) = "_"

-----------------------------------------------------------------------------
(* The dataset document (settings.json) served to the page: an ordered     *)
(* list of versions and three arrays of records.  An absent optional field *)
(* is "" (category, flags, tier), FALSE (cloud_only, hasVersions,          *)
(* hasMentions) or NotArray (mentions.docs, mentions.blogs).  `related` is  *)
(* the names of the related entries, "" for an entry without a name.       *)

NotArray == -1

V1 == "25.8"
V2 == "25.7"

VInfo(tier, changed) == [tier |-> tier, changed_from_prev |-> changed]

NoMentions == [docs |-> NotArray, blogs |-> NotArray]

SettingsJson ==
  [ versions |-> <<V1, V2>>,
    settings |-> <<
      [ name |-> "max_threads", description |-> "The Max", category |-> "Performance",
        flags |-> "", cloud_only |-> FALSE, hasVersions |-> TRUE,
        versions |-> (V1 :> VInfo("production", TRUE) @@ V2 :> VInfo("production", FALSE)),
        hasMentions |-> TRUE, mentions |-> [docs |-> 1, blogs |-> 0],
        related |-> <<"merge_max_..Size", "", "readonly", "gone">> ],
      [ name |-> "readonly", description |-> "", category |-> "Session",
        flags |-> "BETA EXPERIMENTAL", cloud_only |-> TRUE, hasVersions |-> TRUE,
        versions |-> (V1 :> VInfo("", FALSE)),
        hasMentions |-> FALSE, mentions |-> NoMentions, related |-> << >> ],
      [ name |-> "legacy", description |-> "max", category |-> "Performance",
        flags |-> "", cloud_only |-> TRUE, hasVersions |-> FALSE,
        versions |-> << >>,
        hasMentions |-> TRUE, mentions |-> [docs |-> 1, blogs |-> 1],
        related |-> << >> ] >>,
    merge_tree_settings |-> <<
      [ name |-> "merge_max_..Size", description |-> "", category |-> "",
        flags |-> "Beta", cloud_only |-> FALSE, hasVersions |-> TRUE,
        versions |-> (V1 :> VInfo("beta", FALSE) @@ V2 :> VInfo("", TRUE)),
        hasMentions |-> TRUE, mentions |-> [docs |-> NotArray, blogs |-> 1],
        related |-> <<"max_threads">> ] >>,
    format_settings |-> <<
      [ name |-> "readonly", description |-> "", category |-> "Formats",
        flags |-> "", cloud_only |-> FALSE, hasVersions |-> TRUE,
        versions |-> (V1 :> VInfo("production", FALSE) @@ V2 :> VInfo("production", FALSE)),
        hasMentions |-> FALSE, mentions |-> NoMentions, related |-> << >> ] >> ]

\* `data` before loadData has assigned it
NullData ==
  [ loaded |-> FALSE, versions |-> << >>, settings |-> << >>,
    merge_tree_settings |-> << >>, format_settings |-> << >> ]

ScopeOrder == <<"session", "mergetree", "format">>
TierOrder == <<"production", "beta", "experimental">>
SpecialOrder == <<"cloud", "refs">>

TOPIC_BLOCKLIST == {"Formats", "MergeTree", "Session"}

\* Array.prototype.sort((a,b) => a.localeCompare(b)) over the topic labels
\* that the dataset's categories and inferSubsystems can produce.
LocaleOrder ==
  << "Azure", "Caches", "Coordination/DDL", "Distributed", "Formats", "HDFS",
     "Kafka", "Merges", "MergeTree", "Mutations", "MySQL", "Observability",
     "Performance", "PostgreSQL", "Replicated", "Resource Control", "RocksDB",
     "S3", "Security", "Session", "Thread Pools", "Uncategorized",
     "ZooKeeper/Keeper" >>

sortLocale(S) == SelectValues(LocaleOrder, S)

Tag(cond, x) == IF cond THEN <<x>> ELSE << >>

\* Array.from(new Set(seq)): first occurrences, in order
RECURSIVE Dedup(_)
Dedup(s) ==
  IF s = << >> THEN << >>
  ELSE LET rest == Dedup(SubSeq(s, 1, Len(s) - 1))
           x == s[Len(s)]
       IN  IF x \in SeqToSet(rest) THEN rest ELSE Append(rest, x)

inferSubsystems(name, desc, scope) ==
  LET t == toLowerCase(name \o " " \o desc)
      has(x) == includes(t, x)
  IN  Dedup(
        Tag(scope = "mergetree", "MergeTree")
     \o Tag(scope = "format", "Formats")
     \o Tag(has("replica") \/ has("replicat"), "Replicated")
     \o Tag(has("distributed"), "Distributed")
     \o Tag(has("kafka"), "Kafka")
     \o Tag(has("zookeeper") \/ has("keeper"), "ZooKeeper/Keeper")
     \o Tag(has("mysql"), "MySQL")
     \o Tag(has("postgres") \/ has("psql"), "PostgreSQL")
     \o Tag(TestWordRe(t, "s3") \/ has("minio"), "S3")
     \o Tag(has("azure"), "Azure")
     \o Tag(has("hdfs"), "HDFS")
     \o Tag(has("rocksdb"), "RocksDB")
     \o Tag(has("mutation") \/ has("lightweight_update") \/ has(" update")
              \/ has(" delete"), "Mutations")
     \o Tag(TestWordRe(t, "merge") \/ TestWordRe(t, "merges"), "Merges")
     \o Tag(has("thread") /\ has("pool"), "Thread Pools")
     \o Tag(has("on cluster") \/ has("distributed_ddl") \/ has(" ddl"),
            "Coordination/DDL")
     \o Tag(has("mark_cache") \/ has("uncompressed_cache")
              \/ has("compiled_expression_cache") \/ has("filesystem_cache"), "Caches")
     \o Tag(has("log") \/ has("trace") \/ has("profile") \/ has("metrics")
              \/ has("prometheus"), "Observability")
     \o Tag(has("max_") \/ has("memory_") \/ has("timeout") \/ has("bandwidth")
              \/ has("_pool_"), "Resource Control")
     \o Tag(has(" ssl") \/ has("secure") \/ has("password") \/ has("auth"),
            "Security") )

\* Variant: beta is tested before experimental
parseTierBetaFirst(flags) ==
  IF includes(toLowerCase(flags), "beta") THEN "beta"
  ELSE IF includes(toLowerCase(flags), "experimental") THEN "experimental"
  ELSE "production"

parseTierFromFlags(flags) ==
  IF flags = "" THEN "production"
  ELSE LET tokens == toLowerCase(flags)
       IN  IF includes(tokens, "experimental") THEN "experimental"
           ELSE IF includes(tokens, "beta") THEN "beta"
           ELSE "production"

\* enrich(arr, scope) of loadData: the derived fields of one record
\* s.f of a record that may not have the field yet
fieldOr(s, f, dflt) == IF f \in DOMAIN s THEN s[f] ELSE dflt

\* Variant: the inferred tags are appended to the tags the record has
enrichAppending(s, scope) ==
  [ _scope |-> IF scope # "" THEN scope ELSE fieldOr(s, "_scope", ""),
    _hayLower |-> toLowerCase(s.name \o " " \o s.description),
    _subsystems |-> fieldOr(s, "_subsystems", << >>)
                      \o inferSubsystems(s.name, s.description, scope) ] @@ s

enrich(s, scope) ==
  [ _scope |-> IF scope # "" THEN scope ELSE fieldOr(s, "_scope", ""),
    _hayLower |-> toLowerCase(s.name \o " " \o s.description),
    _subsystems |-> inferSubsystems(s.name, s.description, scope) ] @@ s

enrichAll(arr, scope) == [ i \in 1..Len(arr) |-> enrich(arr[i], scope) ]

\* loadData(): the value of `data` once the document is fetched and enriched
loadData(doc) ==
  [ loaded |-> TRUE, versions |-> doc.versions,
    settings |-> enrichAll(doc.settings, "session"),
    merge_tree_settings |-> enrichAll(doc.merge_tree_settings, "mergetree"),
    format_settings |-> enrichAll(doc.format_settings, "format") ]

\* The enriched document, computed once.
LoadedData == loadData(SettingsJson)

\* combinedDataset(scopes): copies of the records of the given scopes, in
\* the fixed order session, mergetree, format.
combinedDataset(d, scopes) ==
  IF ~d.loaded THEN << >>
  ELSE (IF "session" \in scopes THEN d.settings ELSE << >>)
    \o (IF "mergetree" \in scopes THEN d.merge_tree_settings ELSE << >>)
    \o (IF "format" \in scopes THEN d.format_settings ELSE << >>)

Category(s) == IF s.category = "" THEN "Uncategorized" ELSE s.category

uniqueCategories(settings) ==
  sortLocale({ Category(settings[i]) : i \in 1..Len(settings) })

uniqueSubsystems(settings) ==
  sortLocale(UNION { SeqToSet(settings[i]._subsystems) : i \in 1..Len(settings) })


-----------------------------------------------------------------------------
(* Search: tokens and matching.                                            *)

Quote == "\""

\* Index of the first double quote of q at or after position i (0 if none)
RECURSIVE NextQuote(_, _)
NextQuote(q, i) ==
  IF i > Len(q) THEN 0
  ELSE IF CharAt(q, i) = Quote THEN i ELSE NextQuote(q, i + 1)

\* Index just past the run of non-space characters of q that starts at i
RECURSIVE EndOfWord(_, _)
EndOfWord(q, i) ==
  IF i > Len(q) \/ IsSpace(CharAt(q, i)) THEN i ELSE EndOfWord(q, i + 1)

\* The loop of parseQueryToTokens: successive matches of /"([^"]+)"|(\S+)/g
\* from position i on; each match contributes its trimmed text unless empty.
RECURSIVE ScanTokens(_, _)
ScanTokens(q, i) ==
  IF i > Len(q) THEN << >>
  ELSE IF IsSpace(CharAt(q, i)) THEN ScanTokens(q, i + 1)
  ELSE LET j == IF CharAt(q, i) = Quote THEN NextQuote(q, i + 1) ELSE 0
       IN  IF j >= i + 2
           THEN LET tok == trim(SubSeq(q, i + 1, j - 1))
                IN  Tag(tok # "", tok) \o ScanTokens(q, j + 1)
           ELSE LET k == EndOfWord(q, i)
                IN  <<SubSeq(q, i, k - 1)>> \o ScanTokens(q, k)

parseQueryToTokens(qraw) ==
  LET q == trim(toLowerCase(qraw))
  IN  IF q = "" THEN << >> ELSE ScanTokens(q, 1)

\* Variant: one matching token is enough
matchesAnyToken(hayLower, tokens) ==
  Len(tokens) = 0 \/ \E i \in 1..Len(tokens) : includes(hayLower, tokens[i])

matchesQuery(hayLower, tokens) ==
  \A n \in 1..Len(tokens) : includes(hayLower, tokens[n])

\* Texts the user types into the search box
QueryTexts == { "", "Max ", "max size", "\"the max\" thr", "\"max the\"" }

\* getSearchTokens(): the tokens of the search text `input`
getSearchTokens(input) == parseQueryToTokens(trim(toLowerCase(input)))

\* __qCachedRaw -> __qCachedTokens: the tokens of each search text, parsed once
qCachedTokens ==
  [ input \in QueryTexts \cup { trim(t) : t \in QueryTexts } |-> getSearchTokens(input) ]

-----------------------------------------------------------------------------
(* Toggle groups.  A group is [opts, sel]: the values of its .toggle       *)
(* buttons in DOM order and the set of values of its .toggle.selected      *)
(* buttons.  A container that has not been built yet has no buttons.       *)

EmptyGroup == [opts |-> << >>, sel |-> {}]

\* A container the document does not have: el(id) is null
NoContainer == [opts |-> << >>, sel |-> {}, absent |-> TRUE]

\* buildToggleGroup(container, options, selectedSet): the rebuilt container;
\* an invalid container is reported with console.error and left alone
buildToggleGroup(container, options, selectedSet) ==
  IF container = NoContainer THEN container
  ELSE [opts |-> options, sel |-> SeqToSet(options) \cap selectedSet]

\* The counters of a group are on its pills
countsOn(container, counts) == IF container = NoContainer THEN << >> ELSE counts

getSelectedValues(g) == SelectValues(g.opts, g.sel)

\* getSelectedSet(container) || dflt  (getSelectedSet is null when no button
\* is selected)
getSelectedSetOr(g, dflt) == IF g.sel = {} THEN dflt ELSE g.sel

\* Variant: no fallback for an empty selection
getSelectedScopesNoDefault(g) == getSelectedValues(g)

\* getSelectedScopes(): an array, all three scopes when none is selected
getSelectedScopes(g) ==
  IF getSelectedValues(g) = << >> THEN ScopeOrder ELSE getSelectedValues(g)

\* querySelectorAll('.toggle').length
toggleCount(g) == Len(g.opts)

\* Variant: the solo branch does not deselect the siblings
clickToggleKeepSiblings(g, value, solo) ==
  IF solo THEN [g EXCEPT !.sel = @ \cup {value}]
  ELSE [g EXCEPT !.sel = IF value \in @ THEN @ \ {value} ELSE @ \cup {value}]

\* The click listener that buildToggleGroup puts on each button
clickToggle(g, value, solo) ==
  IF solo THEN [g EXCEPT !.sel = {value}]
  ELSE IF value \in g.sel THEN [g EXCEPT !.sel = g.sel \ {value}]
  ELSE [g EXCEPT !.sel = g.sel \cup {value}]

setAllSelected(g, selected) ==
  [g EXCEPT !.sel = IF selected THEN SeqToSet(g.opts) ELSE {}]

-----------------------------------------------------------------------------
(* Filter engine.                                                          *)

\* Variant: only the versions map is checked, not the entry
hasVersionMapOnly(s, version) == s.hasVersions

hasVersion(s, version) == s.hasVersions /\ version \in DOMAIN s.versions

\* vinfo = s.versions[version], read with ?. (an absent entry has no fields)
vinfoOf(s, version) ==
  IF s.hasVersions /\ version \in DOMAIN s.versions THEN s.versions[version]
  ELSE VInfo("", FALSE)

\* vinfo?.tier || parseTierFromFlags(s.flags) || 'production'
effectiveTier(s, version) ==
  IF vinfoOf(s, version).tier # "" THEN vinfoOf(s, version).tier
  ELSE parseTierFromFlags(s.flags)

\* md, mb of the 'refs' gate: the lengths of mentions.docs / mentions.blogs
mentionCount(s, kind) ==
  IF ~s.hasMentions THEN 0
  ELSE IF s.mentions[kind] = NotArray THEN 0 ELSE s.mentions[kind]

\* Variant: both kinds of mention are required
hasRefsBoth(s) == mentionCount(s, "docs") > 0 /\ mentionCount(s, "blogs") > 0

\* The 'refs' gate: !md && !mb rejects the record
hasRefs(s) == ~(mentionCount(s, "docs") = 0 /\ mentionCount(s, "blogs") = 0)

\* Variant: the topic filter applies whenever something is selected
applyTopicFilterAnySelected(selectedTopics, allTopicCount) ==
  Cardinality(selectedTopics) > 0

applyTopicFilterOf(selectedTopics, allTopicCount) ==
  Cardinality(selectedTopics) > 0 /\ Cardinality(selectedTopics) < allTopicCount

\* Variant: only the category is looked at
topicOkCategoryOnly(s, selectedTopics) == Category(s) \in selectedTopics

topicOk(s, selectedTopics) ==
  \/ Category(s) \in selectedTopics
  \/ \E n \in 1..Len(s._subsystems) : s._subsystems[n] \in selectedTopics

\* What renderList reads from the controls before filtering (lines 473-481)
readControls(A) ==
  [ valid |-> TRUE,
    version |-> A.versionSelect.value,
    scopeSel |-> A.scopeGroup.sel,
    scopes |-> getSelectedScopes(A.scopeGroup),
    selectedTopics |-> A.topicGroup.sel,
    raw |-> trim(toLowerCase(A.searchInput)),
    qTokens |-> qCachedTokens[A.searchInput],
    selectedTiers |-> A.tierGroup.sel,
    specialSel |-> A.specialGroup.sel,
    allTopicCount |-> toggleCount(A.topicGroup),
    applyTopicFilter |-> applyTopicFilterOf(A.topicGroup.sel, toggleCount(A.topicGroup)),
    changedOnly |-> A.changedOnly ]

NotRendered ==
  [ valid |-> FALSE, version |-> "", scopeSel |-> {}, scopes |-> << >>,
    selectedTopics |-> {}, raw |-> "", qTokens |-> << >>, selectedTiers |-> {}, specialSel |-> {}, allTopicCount |-> 0,
    applyTopicFilter |-> FALSE, changedOnly |-> FALSE ]

\* The predicate of items = combinedDataset(scopes).filter(s => ...)
listFilter(s, r) ==
  /\ r.applyTopicFilter => topicOk(s, r.selectedTopics)
  /\ hasVersion(s, r.version)
  /\ (r.selectedTiers # {} => effectiveTier(s, r.version) \in r.selectedTiers)
  /\ (r.changedOnly => vinfoOf(s, r.version).changed_from_prev)
  /\ ("cloud" \in r.specialSel => s.cloud_only)
  /\ ("refs" \in r.specialSel => hasRefs(s))
  /\ matchesQuery(s._hayLower, r.qTokens)

\* [a-z0-9_-] of the row id expression
IsIdChar(c) ==
  \/ \E k \in 1..Len(LowerChars) : CharAt(LowerChars, k) = c
  \/ \E k \in 1..Len(DigitChars) : CharAt(DigitChars, k) = c
  \/ c = "_"
  \/ c = "-"

\* Variant: .replace(/[^a-z0-9_-]+/g, '-'), one '-' for a whole run
RECURSIVE replaceRuns(_)
replaceRuns(t) ==
  IF t = "" THEN ""
  ELSE IF IsIdChar(CharAt(t, 1)) THEN CharAt(t, 1) \o replaceRuns(SubSeq(t, 2, Len(t)))
  ELSE IF Len(t) > 1 /\ ~IsIdChar(CharAt(t, 2)) THEN replaceRuns(SubSeq(t, 2, Len(t)))
  ELSE "-" \o replaceRuns(SubSeq(t, 2, Len(t)))

\* .replace(/[^a-z0-9_-]/g, '-')
RECURSIVE replaceEach(_)
replaceEach(t) ==
  IF t = "" THEN ""
  ELSE (IF IsIdChar(CharAt(t, 1)) THEN CharAt(t, 1) ELSE "-")
         \o replaceEach(SubSeq(t, 2, Len(t)))

\* 's-' + String(name).toLowerCase().replace(/[^a-z0-9_-]/g,'-')
rowId(name) == "s-" \o replaceEach(toLowerCase(name))

\* The Related chips of a row: the first five entries that have a name
relatedChips(s) ==
  LET first == SubSeq(s.related, 1, IF Len(s.related) < 5 THEN Len(s.related) ELSE 5)
      named == SelectSeq(first, LAMBDA n : n # "")
  IN  [ i \in 1..Len(named) |-> [name |-> named[i], href |-> "#" \o rowId(named[i])] ]

\* One rendered row: the record it shows, its element id, its Related chips
renderRow(s) ==
  [_scope |-> s._scope, name |-> s.name, id |-> rowId(s.name), related |-> relatedChips(s)]

\* The row of each record of the loaded document, built once (a row depends
\* on its record only)
rowOf ==
  [ s \in SeqToSet(combinedDataset(LoadedData, SeqToSet(ScopeOrder))) |-> renderRow(s) ]

Row(s) == rowOf[s]

Rows(items) == [ i \in 1..Len(items) |-> Row(items[i]) ]

\* What passFilters reads from the controls (lines 1074-1081)
readFilters(A) ==
  [ version |-> A.versionSelect.value,
    changedOnly |-> A.changedOnly,
    qTokens |-> qCachedTokens[A.searchInput],
    selectedTiers |-> A.tierGroup.sel,
    selectedTopics |-> A.topicGroup.sel,
    applyTopicFilter |-> applyTopicFilterOf(A.topicGroup.sel, toggleCount(A.topicGroup)) ]

\* passFilters(s, opts): the predicate of the facet counts, on the controls
\* c = readFilters(page) as they are when it is called
passFilters(s, ignoreTier, ignoreTopics, c) ==
  /\ hasVersion(s, c.version)
  /\ (~ignoreTier /\ c.selectedTiers # {}
        => effectiveTier(s, c.version) \in c.selectedTiers)
  /\ (~ignoreTopics /\ c.applyTopicFilter => topicOk(s, c.selectedTopics))
  /\ (c.changedOnly => vinfoOf(s, c.version).changed_from_prev)
  /\ matchesQuery(s._hayLower, c.qTokens)

-----------------------------------------------------------------------------
(* Facet counts and control building.  These operators take the page state *)
(* as a record A (one field per variable they read or write) and return    *)
(* the state they leave.                                                   *)

RECURSIVE Concat(_)
Concat(ss) == IF ss = << >> THEN << >> ELSE ss[1] \o Concat(SubSeq(ss, 2, Len(ss)))

\* The topic labels a record carries that may become pills
pillTopics(s) ==
  Tag(Category(s) \notin TOPIC_BLOCKLIST, Category(s))
    \o SelectSeq(s._subsystems, LAMBDA x : x \notin TOPIC_BLOCKLIST)

\* A counter of the facet counts, kept as the rows that incremented it (one
\* entry per increment); the pill shows the length.
shownCount(c) == Len(c)

NoCounts == [scope |-> << >>, topic |-> << >>, tier |-> << >>]

AllScopes == SeqToSet(ScopeOrder)
AllTiers == SeqToSet(TierOrder)

updateFacetCounts(A) ==
  IF ~A.data.loaded THEN A
  ELSE
    LET allItems == combinedDataset(A.data, AllScopes)
        c0 == readFilters(A)
        scopeCounts ==
          [ v \in AllScopes |->
              Rows(SelectSeq(allItems,
                     LAMBDA s : passFilters(s, FALSE, FALSE, c0) /\ s._scope = v)) ]
        A1 == [A EXCEPT !.scopeGroup =
                 buildToggleGroup(A.scopeGroup, ScopeOrder,
                                  getSelectedSetOr(A.scopeGroup, AllScopes))]
        currentScopes == getSelectedScopes(A1.scopeGroup)
        itemsInScopes == combinedDataset(A.data, SeqToSet(currentScopes))
        counted == SelectSeq(itemsInScopes, LAMBDA s : passFilters(s, FALSE, TRUE, c0))
        topics ==
          sortLocale(UNION { SeqToSet(pillTopics(itemsInScopes[i])) :
                               i \in 1..Len(itemsInScopes) })
        topicCount ==
          [ t \in SeqToSet(topics) |->
              Concat([ i \in 1..Len(counted) |->
                         [ k \in 1..Len(SelectSeq(pillTopics(counted[i]),
                                                  LAMBDA x : x = t)) |->
                             Row(counted[i]) ] ]) ]
        prevVals == getSelectedValues(A1.topicGroup)
        prevAllCount == toggleCount(A1.topicGroup)
        prevAll == Len(prevVals) = prevAllCount /\ prevAllCount > 0
        prevNone == Len(prevVals) = 0 /\ prevAllCount > 0
        kept == SeqToSet(topics) \cap SeqToSet(prevVals)
        topicSel ==
          IF prevAll THEN SeqToSet(topics)
          ELSE IF prevNone THEN {}
          ELSE IF kept = {} /\ Len(topics) > 0 THEN SeqToSet(topics)
          ELSE kept
        A2 == [A1 EXCEPT !.topicGroup = buildToggleGroup(@, topics, topicSel)]
        c2 == readFilters(A2)
        tierCount ==
          [ v \in AllTiers |->
              Rows(SelectSeq(itemsInScopes,
                     LAMBDA s : passFilters(s, TRUE, FALSE, c2)
                                /\ effectiveTier(s, c2.version) = v)) ]
    IN  [A2 EXCEPT
           !.tierGroup =
              buildToggleGroup(@, TierOrder, getSelectedSetOr(A2.tierGroup, AllTiers)),
           !.facetCounts = [scope |-> countsOn(A.scopeGroup, scopeCounts),
                            topic |-> countsOn(A.topicGroup, topicCount),
                            tier |-> countsOn(A.tierGroup, tierCount)]]

renderControls(A) ==
  LET A1 == [A EXCEPT !.scopeGroup =
               buildToggleGroup(@, ScopeOrder, getSelectedSetOr(A.scopeGroup, AllScopes))]
      newScopes == getSelectedScopes(A1.scopeGroup)
      settings == combinedDataset(A.data, SeqToSet(newScopes))
      versions == A.data.versions
      A2 == [A1 EXCEPT !.versionSelect =
               [options |-> versions,
                value |-> IF Len(versions) > 0 THEN versions[1] ELSE ""]]
      cats == SelectSeq(uniqueCategories(settings), LAMBDA t : t \notin TOPIC_BLOCKLIST)
      subs == SelectSeq(uniqueSubsystems(settings), LAMBDA t : t \notin TOPIC_BLOCKLIST)
      topics == sortLocale(SeqToSet(cats) \cup SeqToSet(subs))
      prevScopes == A.lastScopes
      isSuperset == /\ prevScopes # {}
                    /\ Len(newScopes) >= Cardinality(prevScopes)
                    /\ prevScopes \subseteq SeqToSet(newScopes)
                    /\ Len(newScopes) > Cardinality(prevScopes)
      sel == IF isSuperset /\ A.lastApplyTopicFilter = "false"
             THEN SeqToSet(topics)
             ELSE getSelectedSetOr(A2.topicGroup, SeqToSet(topics))
      A3 == [A2 EXCEPT
               !.topicGroup = buildToggleGroup(@, topics, sel),
               !.tierGroup =
                  buildToggleGroup(@, TierOrder, getSelectedSetOr(A2.tierGroup, AllTiers)),
               !.specialGroup = buildToggleGroup(@, SpecialOrder, A2.specialGroup.sel)]
  IN  updateFacetCounts(A3)

\* items = combinedDataset(scopes).filter(...), on the locals r
renderedItems(d, r) ==
  SelectSeq(combinedDataset(d, SeqToSet(r.scopes)), LAMBDA s : listFilter(s, r))

\* Variant: the session array of the dataset itself is filtered
renderListInPlace(A, updateFacets) ==
  LET r == readControls(A)
      items == renderedItems(A.data, r)
      A1 == [A EXCEPT
               !.data.settings = SelectSeq(@, LAMBDA s : listFilter(s, r)),
               !.list = Rows(items),
               !.rendered = r,
               !.lastScopes = SeqToSet(r.scopes),
               !.lastApplyTopicFilter = IF r.applyTopicFilter THEN "true" ELSE "false"]
  IN  IF updateFacets THEN updateFacetCounts(A1) ELSE A1

renderList(A, updateFacets) ==
  LET r == readControls(A)
      items == renderedItems(A.data, r)
      A1 == [A EXCEPT
               !.list = Rows(items),
               !.rendered = r,
               !.lastScopes = SeqToSet(r.scopes),
               !.lastApplyTopicFilter = IF r.applyTopicFilter THEN "true" ELSE "false"]
  IN  IF updateFacets THEN updateFacetCounts(A1) ELSE A1


-----------------------------------------------------------------------------
(* URL state.  The query string is a record of its parameters; a list      *)
(* parameter is kept as the pieces between its commas (no pieces: the      *)
(* parameter is absent or empty).  Facet values contain no comma.          *)

ListParams == {"scopes", "topics", "tiers", "special"}

\* other: the parameters the application does not know, as written; hash: the
\* fragment without '#'; canon: the query string is written the way
\* URL.toString() writes it (a comma as %2C, a space as +)
EmptyUrl ==
  [ q |-> "", v |-> "", scopes |-> << >>, topics |-> << >>, tiers |-> << >>,
    special |-> << >>, changed |-> "", other |-> "", hash |-> "", canon |-> TRUE ]

Null == [isNull |-> TRUE, vals |-> << >>]

\* getList(k) of parseStateFromUrl
getList(pieces) ==
  IF pieces = << >> \/ pieces = <<"">> THEN Null
  ELSE [ isNull |-> FALSE,
         vals |-> SelectSeq([ i \in 1..Len(pieces) |-> trim(pieces[i]) ],
                            LAMBDA x : x # "") ]

parseStateFromUrl(u) ==
  [ q |-> u.q, v |-> u.v,
    scopes |-> getList(u.scopes), topics |-> getList(u.topics),
    tiers |-> getList(u.tiers), special |-> getList(u.special),
    changed |-> (u.changed = "1") ]

\* Variant: classList.toggle without its force argument
applySetToggle(g, vals) ==
  IF vals.isNull THEN g ELSE [g EXCEPT !.sel = SeqToSet(g.opts) \ @]

\* Variant: a list with a value that is not an option is not applied
applySetStrict(g, vals) ==
  IF vals.isNull \/ ~(SeqToSet(vals.vals) \subseteq SeqToSet(g.opts)) THEN g
  ELSE [g EXCEPT !.sel = SeqToSet(vals.vals)]

\* applySet(container, vals) of init, guarded by `if (st.x)`
applySet(g, vals) ==
  IF vals.isNull THEN g
  ELSE [g EXCEPT !.sel = SeqToSet(g.opts) \cap SeqToSet(vals.vals)]

\* Variant: the search text is written as typed
nextUrlUntrimmed(A) ==
  [ q |-> A.searchInput,
    v |-> A.versionSelect.value,
    scopes |-> getSelectedValues(A.scopeGroup),
    topics |-> getSelectedValues(A.topicGroup),
    tiers |-> getSelectedValues(A.tierGroup),
    special |-> getSelectedValues(A.specialGroup),
    changed |-> IF A.changedOnly THEN "1" ELSE "",
    other |-> A.url.other,
    hash |-> A.url.hash,
    canon |-> TRUE ]

\* url.toString() after the set/delete calls of updateUrlFromState ("" and
\* << >> stand for an absent parameter)
nextUrl(A) ==
  [ q |-> trim(A.searchInput),
    v |-> A.versionSelect.value,
    scopes |-> getSelectedValues(A.scopeGroup),
    topics |-> getSelectedValues(A.topicGroup),
    tiers |-> getSelectedValues(A.tierGroup),
    special |-> getSelectedValues(A.specialGroup),
    changed |-> IF A.changedOnly THEN "1" ELSE "",
    other |-> A.url.other,
    hash |-> A.url.hash,
    canon |-> TRUE ]

\* Variant: replaceState is called without comparing
updateUrlAlways(A) ==
  [A EXCEPT !.url = nextUrl(A), !.history.replaced = TRUE]

updateUrlFromState(A) ==
  [A EXCEPT !.url = nextUrl(A), !.history.replaced = (nextUrl(A) # A.url)]

\* init() up to `await loadData()`: the search box is filled from ?q=
initBeforeLoad(A) ==
  LET st == parseStateFromUrl(A.url)
  IN  [A EXCEPT !.searchInput = IF st.q # "" THEN st.q ELSE @]

\* init(), from `await loadData()` up to attachEvents: controls, URL state
initControls(A) ==
  LET A1 == renderControls([A EXCEPT !.data = LoadedData])
      st == parseStateFromUrl(A.url)
  IN  [A1 EXCEPT
         !.versionSelect.value =
            IF st.v # "" /\ st.v \in SeqToSet(A1.versionSelect.options)
            THEN st.v ELSE @,
         !.scopeGroup = applySet(@, st.scopes),
         !.tierGroup = applySet(@, st.tiers),
         !.specialGroup = applySet(@, st.special),
         !.topicGroup = applySet(@, st.topics),
         !.changedOnly = st.changed]

\* attachEvents calls addEventListener on els.scopeGroup and els.tierGroup
\* without testing them: a TypeError when either is null
attachEventsThrows(A) == A.scopeGroup = NoContainer \/ A.tierGroup = NoContainer

\* Variant: the first list render runs before the URL state is applied
initRenderFirst(A) ==
  LET A1 == renderList(renderControls([A EXCEPT !.data = LoadedData]), TRUE)
      st == parseStateFromUrl(A.url)
      A2 == [A1 EXCEPT
               !.versionSelect.value =
                  IF st.v # "" /\ st.v \in SeqToSet(A1.versionSelect.options)
                  THEN st.v ELSE @,
               !.scopeGroup = applySet(@, st.scopes),
               !.tierGroup = applySet(@, st.tiers),
               !.specialGroup = applySet(@, st.special),
               !.topicGroup = applySet(@, st.topics),
               !.changedOnly = st.changed]
  IN  updateUrlFromState(A2)

\* init(), from `await loadData()` on: controls, URL state, first render
initAfterLoad(A) ==
  LET A2 == initControls(A)
  IN  IF attachEventsThrows(A2) THEN A2
      ELSE updateUrlFromState(renderList(A2, TRUE))

-----------------------------------------------------------------------------
(* The state machine.                                                      *)

\* The page state as one record, and its assignment to the next state
Cur ==
  [ url |-> url, data |-> data, searchInput |-> searchInput,
    versionSelect |-> versionSelect, changedOnly |-> changedOnly,
    scopeGroup |-> scopeGroup, topicGroup |-> topicGroup, tierGroup |-> tierGroup,
    specialGroup |-> specialGroup, facetCounts |-> facetCounts, list |-> list,
    rendered |-> rendered, lastScopes |-> lastScopes,
    lastApplyTopicFilter |-> lastApplyTopicFilter, history |-> history ]

Commit(A) ==
  /\ url' = A.url
  /\ data' = A.data
  /\ searchInput' = A.searchInput
  /\ versionSelect' = A.versionSelect
  /\ changedOnly' = A.changedOnly
  /\ scopeGroup' = A.scopeGroup
  /\ topicGroup' = A.topicGroup
  /\ tierGroup' = A.tierGroup
  /\ specialGroup' = A.specialGroup
  /\ facetCounts' = A.facetCounts
  /\ list' = A.list
  /\ rendered' = A.rendered
  /\ lastScopes' = A.lastScopes
  /\ lastApplyTopicFilter' = A.lastApplyTopicFilter
  /\ history' = A.history

\* The same fields, of the current state
PageIs(A) ==
  /\ url = A.url
  /\ data = A.data
  /\ searchInput = A.searchInput
  /\ versionSelect = A.versionSelect
  /\ changedOnly = A.changedOnly
  /\ scopeGroup = A.scopeGroup
  /\ topicGroup = A.topicGroup
  /\ tierGroup = A.tierGroup
  /\ specialGroup = A.specialGroup
  /\ facetCounts = A.facetCounts
  /\ list = A.list
  /\ rendered = A.rendered
  /\ lastScopes = A.lastScopes
  /\ lastApplyTopicFilter = A.lastApplyTopicFilter
  /\ history = A.history

\* A page without controls built, as the document delivers it
BlankPage(u) ==
  [ url |-> u, data |-> NullData, searchInput |-> "",
    versionSelect |-> [options |-> << >>, value |-> ""], changedOnly |-> FALSE,
    scopeGroup |-> EmptyGroup, topicGroup |-> EmptyGroup, tierGroup |-> EmptyGroup,
    specialGroup |-> EmptyGroup, facetCounts |-> NoCounts, list |-> << >>,
    rendered |-> NotRendered, lastScopes |-> {}, lastApplyTopicFilter |-> "null",
    history |-> [len |-> 1, replaced |-> FALSE] ]

\* A container of the document before init() has built anything in it
asDelivered(container) == IF container = NoContainer THEN container ELSE EmptyGroup

\* Query strings the page is first opened with
InitialUrls ==
  { EmptyUrl,
    [EmptyUrl EXCEPT !.scopes = <<"session", "bogus">>,
                     !.topics = <<"Performance", "Resource Control">>,
                     !.canon = FALSE],
    [EmptyUrl EXCEPT !.q = "Max ", !.v = "9.9", !.scopes = <<"bogus">>,
                     !.topics = <<"bogus">>, !.tiers = <<" ", "">>,
                     !.special = <<"bogus">>, !.changed = "true",
                     !.other = "utm=x", !.canon = FALSE],
    [EmptyUrl EXCEPT !.q = "\"the max\" thr", !.v = V1,
                     !.tiers = <<"production", "beta">>,
                     !.special = <<"refs">>, !.changed = "1",
                     !.hash = "s-max_threads", !.canon = FALSE],
    [EmptyUrl EXCEPT !.v = V2, !.scopes = <<"mergetree", "format">>,
                     !.topics = <<" Merges">>, !.tiers = <<"beta">>,
                     !.special = <<"refs">>, !.canon = FALSE],
    [EmptyUrl EXCEPT !.scopes = <<"session">>, !.tiers = <<"experimental">>,
                     !.special = <<"cloud", "refs">>, !.canon = FALSE] }

NoClick ==
  [group |-> "", value |-> "", solo |-> FALSE, before |-> {}, topics |-> EmptyGroup]

\* The click event: the group and pill clicked, the solo modifier
\* (altKey || metaKey || shiftKey), the group's selection and the topic
\* group when it arrived
Click(group, g, value, solo) ==
  [group |-> group, value |-> value, solo |-> solo, before |-> g.sel,
   topics |-> topicGroup]

\* A clipboard text that is no row link (a row link has a fragment)
NoLink == EmptyUrl

NoAttempt == [text |-> NoLink, hasApi |-> FALSE, apiOk |-> FALSE, legacyOk |-> FALSE]

NoCopy == [clipboard |-> NoLink, title |-> "Copy link", attempt |-> NoAttempt]

\* A pill of a facet group; NoPill where there is none
NoPill == [group |-> "", value |-> ""]

\* The tooltip element itself, as the element under the pointer
TooltipBox == [group |-> "tooltip", value |-> ""]

\* The groups updateFacetCounts rebuilds, and the ones renderControls does
FacetGroups == {"scope", "topic", "tier"}

AllGroups == FacetGroups \cup {"special"}

\* tooltipEl hidden (or not yet created), no timer pending, pointer elsewhere.
\* pill: the button the tooltip was shown for, attached: that button is still
\* in its container; showTimer: the button tooltipShowTimer will show,
\* showAttached: that button is still in its container; over: the element
\* that has had its 'mouseenter' and not yet its 'mouseleave'
NoTooltip ==
  [visible |-> FALSE, pill |-> NoPill, attached |-> FALSE, showTimer |-> NoPill,
   showAttached |-> FALSE, hideTimer |-> FALSE, over |-> NoPill]

\* buildToggleGroup on the containers of `groups`: container.innerHTML = ''
\* takes their buttons out of the document; no 'mouseleave' goes to a button
\* that is no longer there, and no timer is touched
rebuilt(t, groups) ==
  [t EXCEPT !.attached = @ /\ t.pill.group \notin groups,
            !.showAttached = @ /\ t.showTimer.group \notin groups,
            !.over = IF @.group \in groups THEN NoPill ELSE @]

hideTooltip(t) ==
  [t EXCEPT !.visible = FALSE,
            !.over = IF @ = TooltipBox THEN NoPill ELSE @]

scheduleHideTooltip(t) == [t EXCEPT !.hideTimer = TRUE]

cancelHideTooltip(t) == [t EXCEPT !.hideTimer = FALSE]

scheduleShowTooltip(t, btn) == [t EXCEPT !.showTimer = btn, !.showAttached = TRUE]

cancelShowTooltip(t) == [t EXCEPT !.showTimer = NoPill, !.showAttached = FALSE]

\* The callback of tooltipShowTimer: builder(btn), showTooltipNear(btn, html)
showTooltipNear(t) ==
  [t EXCEPT !.visible = TRUE, !.pill = t.showTimer, !.attached = t.showAttached,
            !.showTimer = NoPill, !.showAttached = FALSE]

\* 'click' listener of a pill set by attachPillTooltips; it runs after the
\* click listener of buildToggleGroup, which has dispatched 'change'
pillClicked(t) == hideTooltip(cancelShowTooltip(t))

\* No step of the page but a failed load and the copy-link handler touches these
Quiet == UNCHANGED <<console, errorBanner, copy>>

Init ==
  /\ pc = "start"
  /\ lastClick = NoClick
  /\ console = << >>
  /\ errorBanner = ""
  /\ copy = NoCopy
  /\ tooltip = NoTooltip
  /\ \E u \in InitialUrls : PageIs(BlankPage(u))
  /\ quickTimer = 0
  /\ slowTimer = 0
  /\ nEvents = 0

\* init() runs up to the fetch
InitBegin ==
  /\ pc = "start"
  /\ pc' = "fetching"
  /\ Commit(initBeforeLoad(Cur))
  /\ Quiet
  /\ UNCHANGED <<quickTimer, slowTimer, nEvents, lastClick, tooltip>>

\* What init() leaves on the console when attachEvents throws: the two
\* complaints of buildToggleGroup about the container (renderControls and its
\* updateFacetCounts) and the rejection reported by 'unhandledrejection'
initErrors ==
  << "buildToggleGroup: invalid container", "buildToggleGroup: invalid container",
     "TypeError" >>

\* The fetch resolves with the document; init() runs to its end, or to the
\* statement that throws
LoadOk ==
  /\ pc = "fetching"
  /\ pc' = IF attachEventsThrows(Cur) THEN "failed" ELSE "ready"
  /\ Commit(initAfterLoad(Cur))
  /\ console' = IF attachEventsThrows(Cur) THEN console \o initErrors ELSE console
  /\ tooltip' = rebuilt(tooltip, AllGroups)
  /\ lastClick' = NoClick
  /\ UNCHANGED <<errorBanner, copy, quickTimer, slowTimer, nEvents>>

\* The ways `await loadData()` throws: fetch rejects, resp.ok is false,
\* resp.json() rejects
LoadFailures == {"fetch rejected", "Failed to load settings.json", "invalid JSON"}

\* loadData() throws: init() stops at its await and its promise rejects; the
\* 'unhandledrejection' listener logs the reason (DBG is true)
LoadFail(reason) ==
  /\ pc = "fetching"
  /\ pc' = "failed"
  /\ console' = Append(console, reason)
  /\ UNCHANGED <<url, data, searchInput, versionSelect, changedOnly, scopeGroup,
                 topicGroup, tierGroup, specialGroup, facetCounts, list, rendered,
                 lastScopes, lastApplyTopicFilter, history, quickTimer, slowTimer,
                 lastClick, errorBanner, copy, tooltip, nEvents>>

UserEvent ==
  /\ pc = "ready"
  /\ nEvents < MaxEvents
  /\ nEvents' = nEvents + 1
  /\ pc' = pc
  /\ Quiet

\* 'change' listener of the scope group, after the click listener of a pill
ScopeClick(value, solo) ==
  /\ UserEvent
  /\ value \in SeqToSet(scopeGroup.opts)
  /\ LET A1 == [Cur EXCEPT !.scopeGroup = clickToggle(@, value, solo)]
     IN  Commit(updateUrlFromState(renderList(renderControls(A1), TRUE)))
  /\ lastClick' = Click("scope", scopeGroup, value, solo)
  /\ tooltip' = pillClicked(rebuilt(tooltip, AllGroups))
  /\ UNCHANGED <<quickTimer, slowTimer>>

\* 'change' listener of the topic, tier and special groups
TopicClick(value, solo) ==
  /\ UserEvent
  /\ value \in SeqToSet(topicGroup.opts)
  /\ LET A1 == [Cur EXCEPT !.topicGroup = clickToggle(@, value, solo)]
     IN  Commit(updateUrlFromState(renderList(A1, TRUE)))
  /\ lastClick' = Click("topic", topicGroup, value, solo)
  /\ tooltip' = pillClicked(rebuilt(tooltip, FacetGroups))
  /\ UNCHANGED <<quickTimer, slowTimer>>

TierClick(value, solo) ==
  /\ UserEvent
  /\ value \in SeqToSet(tierGroup.opts)
  /\ LET A1 == [Cur EXCEPT !.tierGroup = clickToggle(@, value, solo)]
     IN  Commit(updateUrlFromState(renderList(A1, TRUE)))
  /\ lastClick' = Click("tier", tierGroup, value, solo)
  /\ tooltip' = pillClicked(rebuilt(tooltip, FacetGroups))
  /\ UNCHANGED <<quickTimer, slowTimer>>

SpecialClick(value, solo) ==
  /\ UserEvent
  /\ value \in SeqToSet(specialGroup.opts)
  /\ LET A1 == [Cur EXCEPT !.specialGroup = clickToggle(@, value, solo)]
     IN  Commit(updateUrlFromState(renderList(A1, TRUE)))
  /\ lastClick' = Click("special", specialGroup, value, solo)
  /\ tooltip' = pillClicked(rebuilt(tooltip, FacetGroups))
  /\ UNCHANGED <<quickTimer, slowTimer>>

\* The All / None buttons of the topic group
TopicAllNone(selected) ==
  /\ UserEvent
  /\ topicGroup # NoContainer
  /\ LET A1 == [Cur EXCEPT !.topicGroup = setAllSelected(@, selected)]
     IN  Commit(updateUrlFromState(renderList(A1, TRUE)))
  /\ tooltip' = rebuilt(tooltip, FacetGroups)
  /\ UNCHANGED <<quickTimer, slowTimer>>
  /\ lastClick' = NoClick

\* 'change' listener of the version select
VersionChange(v) ==
  /\ UserEvent
  /\ v \in SeqToSet(versionSelect.options)
  /\ v # versionSelect.value
  /\ LET A1 == [Cur EXCEPT !.versionSelect.value = v]
     IN  Commit(updateUrlFromState(renderList(A1, TRUE)))
  /\ tooltip' = rebuilt(tooltip, FacetGroups)
  /\ UNCHANGED <<quickTimer, slowTimer>>
  /\ lastClick' = NoClick

\* 'change' listener of the changed-only checkbox
ChangedToggle ==
  /\ UserEvent
  /\ LET A1 == [Cur EXCEPT !.changedOnly = ~@]
     IN  Commit(updateUrlFromState(renderList(A1, TRUE)))
  /\ tooltip' = rebuilt(tooltip, FacetGroups)
  /\ UNCHANGED <<quickTimer, slowTimer>>
  /\ lastClick' = NoClick

\* Variant: the pending timer is not cleared before the new one is started
debounceNoClear(pending) == pending + 1
\* debounce(fn, delay): the number of pending timers of one debounced function
\* after a call that found `pending` of them (clearTimeout, then setTimeout)
debounce(pending) == (IF pending > 0 THEN pending - 1 ELSE pending) + 1

\* 'input' listener of the search box: both debounced functions are called
typeText(text) ==
  /\ text # searchInput
  /\ searchInput' = text
  /\ quickTimer' = debounce(quickTimer)
  /\ slowTimer' = debounce(slowTimer)
  /\ lastClick' = NoClick
  /\ history' = [history EXCEPT !.replaced = FALSE]
  /\ UNCHANGED <<url, data, versionSelect, changedOnly, scopeGroup, topicGroup,
                 tierGroup, specialGroup, facetCounts, list, rendered, lastScopes,
                 lastApplyTopicFilter, tooltip>>

SearchInput(text) ==
  /\ UserEvent
  /\ typeText(text)

\* Variant: the 80 ms function recomputes the facet counts too
QuickFireWithFacets ==
  /\ pc = "ready"
  /\ quickTimer > 0
  /\ quickTimer' = quickTimer - 1
  /\ Commit(renderList(updateUrlFromState(Cur), TRUE))
  /\ lastClick' = NoClick
  /\ Quiet
  /\ UNCHANGED <<pc, slowTimer, nEvents, tooltip>>
\* The 80 ms timer of quickList fires
QuickFire ==
  /\ pc = "ready"
  /\ quickTimer > 0
  /\ quickTimer' = quickTimer - 1
  /\ Commit(renderList(updateUrlFromState(Cur), FALSE))
  /\ lastClick' = NoClick
  /\ Quiet
  /\ UNCHANGED <<pc, slowTimer, nEvents, tooltip>>

\* The 280 ms timer of slowFacets fires (started with the 80 ms one, so after it)
SlowFire ==
  /\ pc = "ready"
  /\ slowTimer > 0
  /\ quickTimer = 0
  /\ slowTimer' = slowTimer - 1
  /\ Commit(renderList([Cur EXCEPT !.history.replaced = FALSE], TRUE))
  /\ lastClick' = NoClick
  /\ Quiet
  /\ tooltip' = rebuilt(tooltip, FacetGroups)
  /\ UNCHANGED <<pc, quickTimer, nEvents>>

\* The page is opened again from its current URL (reload, shared link)
Reload ==
  /\ pc \in {"ready", "failed"}
  /\ nEvents < MaxEvents
  /\ nEvents' = nEvents + 1
  /\ pc' = "start"
  /\ Commit([BlankPage(url) EXCEPT !.history.len = history.len,
                                   !.scopeGroup = asDelivered(scopeGroup),
                                   !.topicGroup = asDelivered(topicGroup),
                                   !.tierGroup = asDelivered(tierGroup),
                                   !.specialGroup = asDelivered(specialGroup)])
  /\ quickTimer' = 0
  /\ slowTimer' = 0
  /\ lastClick' = NoClick
  /\ console' = << >>
  /\ copy' = [copy EXCEPT !.title = NoCopy.title]
  /\ tooltip' = NoTooltip
  /\ UNCHANGED errorBanner

\* A Related chip is followed: the browser moves to the fragment of its href,
\* which adds a navigation entry, and the 'hashchange' listener focuses the row
ChipClick(href) ==
  /\ UserEvent
  /\ \E i \in 1..Len(list) : \E k \in 1..Len(list[i].related) :
        list[i].related[k].href = href
  /\ href # "#" \o url.hash
  /\ Commit([Cur EXCEPT !.url.hash = SubSeq(href, 2, Len(href)),
                        !.history = [len |-> @.len + 1, replaced |-> FALSE]])
  /\ UNCHANGED <<quickTimer, slowTimer, tooltip>>
  /\ lastClick' = NoClick

\* What the browser offers a copy: navigator.clipboard.writeText present or
\* not and resolving or not; document.execCommand('copy') copying or not
Clipboards ==
  { [hasApi |-> TRUE, apiOk |-> TRUE, legacyOk |-> TRUE],
    [hasApi |-> TRUE, apiOk |-> FALSE, legacyOk |-> TRUE],
    [hasApi |-> TRUE, apiOk |-> FALSE, legacyOk |-> FALSE],
    [hasApi |-> FALSE, apiOk |-> FALSE, legacyOk |-> TRUE],
    [hasApi |-> FALSE, apiOk |-> FALSE, legacyOk |-> FALSE] }

\* Positions of the rows whose copy-link button is used
CopyRows == {1}

\* `${base}#${row.id}` with base = location.href up to its '#'
copyText(u, id) == [u EXCEPT !.hash = id]

\* Delegated 'click' listener of the list, on a .copylink button of row i,
\* with the writeText promise settled and `done` run
CopyLink(i, env) ==
  /\ pc = "ready"
  /\ nEvents < MaxEvents
  /\ nEvents' = nEvents + 1
  /\ i \in 1..Len(list)
  /\ LET text == copyText(url, list[i].id)
         copied == IF env.hasApi THEN env.apiOk ELSE env.legacyOk
     IN  copy' = [ clipboard |-> IF copied THEN text ELSE copy.clipboard,
                   title |-> "Copied!",
                   attempt |-> [text |-> text, hasApi |-> env.hasApi,
                                apiOk |-> env.apiOk, legacyOk |-> env.legacyOk] ]
  /\ history' = [history EXCEPT !.replaced = FALSE]
  /\ lastClick' = NoClick
  /\ UNCHANGED <<pc, url, data, searchInput, versionSelect, changedOnly, scopeGroup,
                 topicGroup, tierGroup, specialGroup, facetCounts, list, rendered,
                 lastScopes, lastApplyTopicFilter, quickTimer, slowTimer, console,
                 errorBanner, tooltip>>

\* setTimeout(..., 1200) of `done`: the button title is put back
TitleReset ==
  /\ copy.title = "Copied!"
  /\ copy' = [copy EXCEPT !.title = NoCopy.title]
  /\ history' = [history EXCEPT !.replaced = FALSE]
  /\ lastClick' = NoClick
  /\ UNCHANGED <<pc, url, data, searchInput, versionSelect, changedOnly, scopeGroup,
                 topicGroup, tierGroup, specialGroup, facetCounts, list, rendered,
                 lastScopes, lastApplyTopicFilter, quickTimer, slowTimer, console,
                 errorBanner, tooltip, nEvents>>

\* The hrefs of the Related chips the dataset can give
ChipHrefs ==
  { "#" \o rowId(n) :
      n \in UNION { SeqToSet(s.related) :
                      s \in SeqToSet(SettingsJson.settings
                                       \o SettingsJson.merge_tree_settings
                                       \o SettingsJson.format_settings) } }

Next ==
  \/ InitBegin
  \/ LoadOk
  \/ \E reason \in LoadFailures : LoadFail(reason)
  \/ \E value \in AllScopes, solo \in BOOLEAN : ScopeClick(value, solo)
  \/ \E value \in SeqToSet(LocaleOrder), solo \in BOOLEAN : TopicClick(value, solo)
  \/ \E value \in AllTiers, solo \in BOOLEAN : TierClick(value, solo)
  \/ \E value \in SeqToSet(SpecialOrder), solo \in BOOLEAN : SpecialClick(value, solo)
  \/ \E selected \in BOOLEAN : TopicAllNone(selected)
  \/ \E v \in SeqToSet(SettingsJson.versions) : VersionChange(v)
  \/ ChangedToggle
  \/ \E text \in QueryTexts : SearchInput(text)
  \/ QuickFire
  \/ SlowFire
  \/ Reload
  \/ \E href \in ChipHrefs : ChipClick(href)
  \/ \E i \in CopyRows, env \in Clipboards : CopyLink(i, env)
  \/ TitleReset

Spec == Init /\ [][Next]_vars

-----------------------------------------------------------------------------
(* Typing in the search box of a loaded page: bursts of 'input' events and  *)
(* the two timers they start.                                               *)

MaxInputs == 3

\* What is typed while the pointer is over the pills
SearchTexts == {"", "max size"}

\* The page after init() has run to its end on the bare URL
InitSearch ==
  /\ pc = "ready"
  /\ lastClick = NoClick
  /\ console = << >>
  /\ errorBanner = ""
  /\ copy = NoCopy
  /\ tooltip = NoTooltip
  /\ PageIs(initAfterLoad(initBeforeLoad(BlankPage(EmptyUrl))))
  /\ quickTimer = 0
  /\ slowTimer = 0
  /\ nEvents = 0

\* One more 'input' event, whether or not timers of earlier ones are pending
BurstInput(text) ==
  /\ pc = "ready"
  /\ nEvents < MaxInputs
  /\ nEvents' = nEvents + 1
  /\ pc' = pc
  /\ Quiet
  /\ typeText(text)

NextSearch ==
  \/ \E text \in QueryTexts : BurstInput(text)
  \/ QuickFire
  \/ SlowFire

\* A pending timer runs out: the step that takes it off the pending ones is
\* the firing of its callback (QuickFire, SlowFire)
quickElapses == pc = "ready" /\ quickTimer > 0 /\ quickTimer' = quickTimer - 1

slowElapses ==
  /\ pc = "ready"
  /\ slowTimer > 0
  /\ quickTimer = 0
  /\ slowTimer' = slowTimer - 1

\* setTimeout callbacks run once their delay has passed
SpecSearch ==
  /\ InitSearch
  /\ [][NextSearch]_vars
  /\ WF_quickTimer(quickElapses)
  /\ WF_slowTimer(slowElapses)

-----------------------------------------------------------------------------
(* A document that lacks one of the four facet containers.                  *)

\* The page as delivered without the container of `group`
without(A, group) ==
  CASE group = "scope" -> [A EXCEPT !.scopeGroup = NoContainer]
    [] group = "topic" -> [A EXCEPT !.topicGroup = NoContainer]
    [] group = "tier" -> [A EXCEPT !.tierGroup = NoContainer]
    [] group = "special" -> [A EXCEPT !.specialGroup = NoContainer]

InitLayout ==
  /\ pc = "start"
  /\ lastClick = NoClick
  /\ console = << >>
  /\ errorBanner = ""
  /\ copy = NoCopy
  /\ tooltip = NoTooltip
  /\ \E u \in InitialUrls, group \in AllGroups : PageIs(without(BlankPage(u), group))
  /\ quickTimer = 0
  /\ slowTimer = 0
  /\ nEvents = 0

SpecLayout == InitLayout /\ [][Next]_vars

-----------------------------------------------------------------------------
(* The pointer over the pills of a loaded page, with typing and pill clicks *)
(* going on.                                                                *)

\* The pills the pointer visits
HoverPills ==
  { [group |-> "scope", value |-> "session"],
    [group |-> "tier", value |-> "beta"],
    [group |-> "special", value |-> "cloud"] }

\* The buttons now in the container of a group
pillsOf(group) ==
  CASE group = "scope" -> SeqToSet(scopeGroup.opts)
    [] group = "topic" -> SeqToSet(topicGroup.opts)
    [] group = "tier" -> SeqToSet(tierGroup.opts)
    [] group = "special" -> SeqToSet(specialGroup.opts)

\* A pointer or key event, or a tooltip timer: nothing of the page changes
PointerStep ==
  /\ pc = "ready"
  /\ lastClick' = NoClick
  /\ history' = [history EXCEPT !.replaced = FALSE]
  /\ UNCHANGED <<pc, url, data, searchInput, versionSelect, changedOnly, scopeGroup,
                 topicGroup, tierGroup, specialGroup, facetCounts, list, rendered,
                 lastScopes, lastApplyTopicFilter, quickTimer, slowTimer, console,
                 errorBanner, copy, nEvents>>

\* 'mouseenter' listener of a pill (attachPillTooltips)
PillEnter(btn) ==
  /\ PointerStep
  /\ tooltip.over = NoPill
  /\ btn.value \in pillsOf(btn.group)
  /\ tooltip' = [scheduleShowTooltip(cancelHideTooltip(tooltip), btn)
                   EXCEPT !.over = btn]

\* 'mouseleave' listener of a pill
PillLeave ==
  /\ PointerStep
  /\ tooltip.over \in HoverPills
  /\ tooltip' = [scheduleHideTooltip(cancelShowTooltip(tooltip))
                   EXCEPT !.over = NoPill]

\* tooltipShowTimer fires (100 ms after the 'mouseenter')
ShowFire ==
  /\ PointerStep
  /\ tooltip.showTimer # NoPill
  /\ tooltip' = showTooltipNear(tooltip)

\* tooltipHideTimer fires
HideFire ==
  /\ PointerStep
  /\ tooltip.hideTimer
  /\ tooltip' = [hideTooltip(tooltip) EXCEPT !.hideTimer = FALSE]

\* 'mouseenter' listener of tooltipEl (ensureTooltip)
TooltipEnter ==
  /\ PointerStep
  /\ tooltip.visible
  /\ tooltip.over = NoPill
  /\ tooltip' = [cancelHideTooltip(tooltip) EXCEPT !.over = TooltipBox]

\* 'mouseleave' listener of tooltipEl
TooltipLeave ==
  /\ PointerStep
  /\ tooltip.over = TooltipBox
  /\ tooltip' = [scheduleHideTooltip(tooltip) EXCEPT !.over = NoPill]

\* 'keydown' listener of the window, for Escape
EscapeKey ==
  /\ PointerStep
  /\ tooltip' = hideTooltip(cancelHideTooltip(tooltip))

\* The pill under the pointer is clicked
HoverClick ==
  /\ tooltip.over \in HoverPills
  /\ LET btn == tooltip.over
     IN  CASE btn.group = "scope" -> ScopeClick(btn.value, FALSE)
           [] btn.group = "tier" -> TierClick(btn.value, FALSE)
           [] btn.group = "special" -> SpecialClick(btn.value, FALSE)

NextTooltip ==
  \/ \E btn \in HoverPills : PillEnter(btn)
  \/ PillLeave
  \/ ShowFire
  \/ HideFire
  \/ TooltipEnter
  \/ TooltipLeave
  \/ EscapeKey
  \/ HoverClick
  \/ \E text \in SearchTexts : BurstInput(text)
  \/ QuickFire
  \/ SlowFire

SpecTooltip == InitSearch /\ [][NextTooltip]_vars

-----------------------------------------------------------------------------
(* Properties.  The filter gates as the specification words them, written  *)
(* on the raw fields of a record s and on the control values r that the    *)
(* last renderList read.                                                   *)

\* Every record of the loaded document, in the order session, mergetree, format
Records == combinedDataset(LoadedData, AllScopes)

RecordSet == SeqToSet(Records)

Shown(s) == Row(s) \in SeqToSet(list)

Counted(s) ==
  \E f \in DOMAIN facetCounts : \E o \in DOMAIN facetCounts[f] :
     Row(s) \in SeqToSet(facetCounts[f][o])

HasEntry(s, version) == s.hasVersions /\ version \in DOMAIN s.versions

Haystack(s) == toLowerCase(s.name \o " " \o s.description)

RawTexts == {"", "max", "max size", "\"the max\" thr", "\"max the\""}

StoredTier(s, version) == IF HasEntry(s, version) THEN s.versions[version].tier ELSE ""

FlagTier(s) ==
  IF includes(toLowerCase(s.flags), "experimental") THEN "experimental"
  ELSE IF includes(toLowerCase(s.flags), "beta") THEN "beta"
  ELSE "production"

FlagTierOf == [ s \in RecordSet |-> FlagTier(s) ]

EffectiveTier(s, version) ==
  IF StoredTier(s, version) # "" THEN StoredTier(s, version) ELSE FlagTierOf[s]

TopicsOf(s) ==
  {IF s.category = "" THEN "Uncategorized" ELSE s.category} \cup SeqToSet(s._subsystems)

Mentions(s, kind) ==
  IF s.hasMentions /\ s.mentions[kind] # NotArray THEN s.mentions[kind] ELSE 0

\* The tokens of each search text of the model, lowercased and trimmed:
\* quoted phrases intact, other words split at white space
ExpectedTokens(raw) ==
  CASE raw = "" -> {}
    [] raw = "max" -> {"max"}
    [] raw = "max size" -> {"max", "size"}
    [] raw = "\"the max\" thr" -> {"the max", "thr"}
    [] raw = "\"max the\"" -> {"max the"}

\* For each search text, the records whose haystack contains every token
SearchMatches ==
  [ raw \in RawTexts |->
      { s \in RecordSet : \A t \in ExpectedTokens(raw) : includes(Haystack(s), t) } ]

Gates == {"scope", "version", "topic", "tier", "cloud", "refs", "changed", "search"}

Gate(g, s, r) ==
  CASE g = "scope" -> r.scopeSel = {} \/ s._scope \in r.scopeSel
    [] g = "version" -> HasEntry(s, r.version)
    [] g = "topic" ->
         \/ r.selectedTopics = {}
         \/ Cardinality(r.selectedTopics) >= r.allTopicCount
         \/ TopicsOf(s) \cap r.selectedTopics # {}
    [] g = "tier" ->
         r.selectedTiers = {} \/ EffectiveTier(s, r.version) \in r.selectedTiers
    [] g = "cloud" -> "cloud" \in r.specialSel => s.cloud_only
    [] g = "refs" ->
         "refs" \in r.specialSel => Mentions(s, "docs") + Mentions(s, "blogs") > 0
    [] g = "changed" ->
         r.changedOnly => (HasEntry(s, r.version) /\ s.versions[r.version].changed_from_prev)
    [] g = "search" -> s \in SearchMatches[r.raw]

PassesAllBut(s, r, skip) == \A g \in Gates \ skip : Gate(g, s, r)

\* The list the gates give, in dataset order, with the gates in skip removed
GateList(r, skip) ==
  Rows(SelectSeq(Records, LAMBDA s : PassesAllBut(s, r, skip)))

GroupSel(group) ==
  CASE group = "scope" -> scopeGroup.sel
    [] group = "topic" -> topicGroup.sel
    [] group = "tier" -> tierGroup.sel
    [] group = "special" -> specialGroup.sel

\* C1: a record with no versions map or no entry for the selected version is
\* in neither the rendered list nor any facet count, whatever else is selected.
VersionPresence ==
  pc = "ready" =>
    \A s \in RecordSet :
       ~HasEntry(s, versionSelect.value) => ~Shown(s) /\ ~Counted(s)

\* A page that shows rows and counts while a record of the displayed scopes
\* that passes every other gate has no entry for the selected version.
VersionPresenceWitness ==
  /\ pc = "ready"
  /\ list # << >>
  /\ \E s \in RecordSet : Counted(s)
  /\ \E s \in RecordSet :
        ~HasEntry(s, versionSelect.value) /\ PassesAllBut(s, rendered, {"version"})

\* C2: search is a conjunction over tokens (a quoted phrase intact, other
\* words split at white space): among the records that pass every other gate,
\* the rendered ones are exactly those whose lowercase name + " " +
\* description contains every token; an empty query lets every record through.
SearchAndSemantics ==
  rendered.valid =>
    \A s \in RecordSet :
       PassesAllBut(s, rendered, {"search"}) =>
         (Shown(s) <=> s \in SearchMatches[rendered.raw])

\* The two-word query "max size" is rendered: a record containing both words
\* is shown and a record containing only one of them is not.
SearchAndSemanticsWitness ==
  /\ rendered.valid
  /\ rendered.raw = "max size"
  /\ \E s \in RecordSet : Shown(s) /\ s \in SearchMatches["max size"]
  /\ \E s \in RecordSet :
        /\ PassesAllBut(s, rendered, {"search"})
        /\ s \in SearchMatches["max"]
        /\ ~Shown(s)

\* The controls renderList would read had no topic been selected
NoTopicSelected(r) ==
  [r EXCEPT !.selectedTopics = {},
            !.applyTopicFilter = applyTopicFilterOf({}, r.allTopicCount)]

\* C3: the list rendered with every available topic option selected is the
\* list that the same controls give with no topic option selected.
TopicAllEqualsNone ==
  (rendered.valid /\ rendered.allTopicCount > 0
     /\ Cardinality(rendered.selectedTopics) = rendered.allTopicCount) =>
    list = Rows(renderedItems(data, NoTopicSelected(rendered)))

\* Every topic option is selected and a shown record carries none of them.
TopicAllEqualsNoneWitness ==
  /\ rendered.valid
  /\ rendered.allTopicCount > 0
  /\ Cardinality(rendered.selectedTopics) = rendered.allTopicCount
  /\ \E s \in RecordSet : Shown(s) /\ TopicsOf(s) \cap rendered.selectedTopics = {}

\* The page a fresh start from the URL of page A arrives at
RoundTrip(A) ==
  initAfterLoad(initBeforeLoad(BlankPage(updateUrlFromState(A).url)))

AllFacetsNonEmpty ==
  /\ scopeGroup.sel # {}
  /\ topicGroup.sel # {}
  /\ tierGroup.sel # {}
  /\ specialGroup.sel # {}

SoloClickSelectsOnlyClicked ==
  (lastClick.group # "" /\ lastClick.solo) =>
    GroupSel(lastClick.group) = {lastClick.value}

\* A solo click on a scope option that was not selected while two others were.
SoloClickWitness ==
  /\ lastClick.group = "scope"
  /\ lastClick.solo
  /\ Cardinality(lastClick.before) >= 2
  /\ lastClick.value \notin lastClick.before
  /\ scopeGroup.sel = {lastClick.value}

\* C6: once a plain click is handled, the clicked option is flipped and every
\* other option of its group is selected exactly when it was before.
PlainClickFlipsOnlyClicked ==
  (lastClick.group # "" /\ ~lastClick.solo) =>
    GroupSel(lastClick.group) =
      (lastClick.before \ {lastClick.value}) \cup ({lastClick.value} \ lastClick.before)

\* C7: with a non-empty topic selection, among the records that pass every
\* other gate, the rendered ones are those whose category ('Uncategorized'
\* when absent) or one of whose inferred tags is selected when the selection
\* is a proper subset of the options, and all of them when it covers them.
TopicMembership ==
  (rendered.valid /\ rendered.selectedTopics # {}) =>
    \A s \in RecordSet :
       PassesAllBut(s, rendered, {"topic"}) =>
         (Shown(s) <=>
            IF Cardinality(rendered.selectedTopics) < rendered.allTopicCount
            THEN TopicsOf(s) \cap rendered.selectedTopics # {}
            ELSE TRUE)

\* A proper subset is selected: one record is shown through an inferred tag
\* only, another passes every other gate and is left out.
TopicMembershipWitness ==
  /\ rendered.valid
  /\ rendered.selectedTopics # {}
  /\ Cardinality(rendered.selectedTopics) < rendered.allTopicCount
  /\ \E s \in RecordSet :
        /\ Shown(s)
        /\ (IF s.category = "" THEN "Uncategorized" ELSE s.category)
              \notin rendered.selectedTopics
  /\ \E s \in RecordSet : PassesAllBut(s, rendered, {"topic"}) /\ ~Shown(s)

\* C8: the effective tier of a record is the tier stored for the selected
\* version or, when none is stored, the tier its flags name (experimental
\* before beta, else production); among the records that pass every other
\* gate, the rendered ones are those whose effective tier is selected, and all
\* of them when no tier is selected.
TierMembership ==
  rendered.valid =>
    \A s \in RecordSet :
       PassesAllBut(s, rendered, {"tier"}) =>
         (Shown(s) <=>
            (rendered.selectedTiers = {}
               \/ EffectiveTier(s, rendered.version) \in rendered.selectedTiers))

\* Some tiers are selected: a record with no stored tier is shown through its
\* flags, which name both beta and experimental, and another record that
\* passes every other gate is left out.
TierMembershipWitness ==
  /\ rendered.valid
  /\ rendered.selectedTiers # {}
  /\ \E s \in RecordSet :
        /\ Shown(s)
        /\ StoredTier(s, rendered.version) = ""
        /\ includes(toLowerCase(s.flags), "beta")
        /\ FlagTierOf[s] = "experimental"
  /\ \E s \in RecordSet : PassesAllBut(s, rendered, {"tier"}) /\ ~Shown(s)

\* C9: 'cloud', 'refs' and changed-only gate conjunctively and each on its
\* own setting: among the records that pass the scope, version, topic, tier
\* and search gates, the rendered ones are those that are cloud-only if
\* 'cloud' is selected, have a docs or blog mention if 'refs' is selected, and
\* changed in the selected version if changed-only is on.
SpecialAndChangedGates ==
  rendered.valid =>
    \A s \in RecordSet :
       PassesAllBut(s, rendered, {"cloud", "refs", "changed"}) =>
         (Shown(s) <=>
            /\ ("cloud" \in rendered.specialSel => s.cloud_only)
            /\ ("refs" \in rendered.specialSel =>
                  (Mentions(s, "docs") > 0 \/ Mentions(s, "blogs") > 0))
            /\ (rendered.changedOnly => s.versions[rendered.version].changed_from_prev))

\* Both special options are selected and changed-only is on; a cloud-only
\* record without mentions passes the five other gates and is left out.
SpecialAndChangedGatesWitness ==
  /\ rendered.valid
  /\ rendered.specialSel = {"cloud", "refs"}
  /\ rendered.changedOnly
  /\ \E s \in RecordSet :
        /\ PassesAllBut(s, rendered, {"cloud", "refs", "changed"})
        /\ s.cloud_only
        /\ Mentions(s, "docs") + Mentions(s, "blogs") = 0
        /\ ~Shown(s)

FacetEmpty(g, r) ==
  CASE g = "scope" -> r.scopeSel = {}
    [] g = "topic" -> r.selectedTopics = {}
    [] g = "tier" -> r.selectedTiers = {}
    [] g = "special" -> r.specialSel = {}

FacetGates(g) == IF g = "special" THEN {"cloud", "refs"} ELSE {g}

\* C10: for each of scope, topic, tier and special, a render that finds no
\* option of the facet selected gives the list computed with that facet's
\* gate removed.
EmptySelectionUnrestricted ==
  rendered.valid =>
    \A g \in {"scope", "topic", "tier", "special"} :
       FacetEmpty(g, rendered) => list = GateList(rendered, FacetGates(g))

\* A render that finds all four facets empty, with topic options to choose
\* from, and shows records of two scopes.
EmptySelectionWitness ==
  /\ rendered.valid
  /\ \A g \in {"scope", "topic", "tier", "special"} : FacetEmpty(g, rendered)
  /\ rendered.allTopicCount > 0
  /\ \E i, j \in 1..Len(list) : list[i]._scope # list[j]._scope

\* The control values as they stand, in the form the gates read them
Controls ==
  [ scopeSel |-> scopeGroup.sel,
    version |-> versionSelect.value,
    selectedTopics |-> topicGroup.sel,
    allTopicCount |-> Len(topicGroup.opts),
    selectedTiers |-> tierGroup.sel,
    specialSel |-> specialGroup.sel,
    changedOnly |-> changedOnly,
    raw |-> trim(toLowerCase(searchInput)) ]

Carries(f, o, s, r) ==
  CASE f = "scope" -> s._scope = o
    [] f = "topic" -> o \in TopicsOf(s)
    [] f = "tier" -> EffectiveTier(s, r.version) = o

\* The number of records that carry option o of facet f and pass every gate
\* but the facet's own (scope counts range over all scopes that way)
ExpectedCount(f, o, r) ==
  Cardinality({ s \in RecordSet : Carries(f, o, s, r) /\ PassesAllBut(s, r, {f}) })

FacetsFresh == pc = "ready" /\ quickTimer = 0 /\ slowTimer = 0

\* C11: after a facet-count recomputation the count on every scope, topic and
\* tier option is the number of records that carry the option and pass every
\* other active filter, special flags included.
FacetCountsMatch ==
  FacetsFresh =>
    \A f \in DOMAIN facetCounts : \A o \in DOMAIN facetCounts[f] :
       Len(facetCounts[f][o]) = ExpectedCount(f, o, Controls)

\* The last step handled a scope click that changed the topic option set
TopicOptionsChanged ==
  /\ lastClick.group = "scope"
  /\ lastClick.topics.opts # topicGroup.opts

AllOf(g) == SeqToSet(g.opts)

\* C12: when a scope change replaces the topic options and every topic
\* option was selected before, every new topic option is selected once the
\* change is handled.
TopicAllStaysAll ==
  (TopicOptionsChanged /\ lastClick.topics.opts # << >>
     /\ lastClick.topics.sel = AllOf(lastClick.topics)) =>
    topicGroup.sel = AllOf(topicGroup)

\* The group of a plain click that deselected its last selected option
EmptiedByClick(group) ==
  /\ lastClick.group = group
  /\ ~lastClick.solo
  /\ lastClick.before = {lastClick.value}

\* C13: a facet (topic, tier or scope) with no option selected before a
\* rebuild still has none selected after it: a group emptied by a click stays
\* empty through the rebuild that handles the click, and an empty topic group
\* stays empty through a scope change.
EmptyStaysEmpty ==
  /\ \A group \in {"scope", "topic", "tier"} :
        EmptiedByClick(group) => GroupSel(group) = {}
  /\ (lastClick.group = "scope" /\ lastClick.topics.opts # << >>
        /\ lastClick.topics.sel = {}) => topicGroup.sel = {}

\* C14: when a scope change replaces the topic options and the selection was
\* neither empty nor full, the new selection is the old one restricted to the
\* new options, or all new options if that leaves nothing.
TopicPartialIntersects ==
  (TopicOptionsChanged /\ lastClick.topics.sel # {}
     /\ lastClick.topics.sel # AllOf(lastClick.topics)) =>
    topicGroup.sel =
      IF lastClick.topics.sel \cap AllOf(topicGroup) = {}
      THEN AllOf(topicGroup)
      ELSE lastClick.topics.sel \cap AllOf(topicGroup)

\* A list parameter lists exactly the values of the set `sel`, each once
Lists(param, sel) ==
  /\ SeqToSet(param) = sel
  /\ Len(param) = Cardinality(sel)

\* C15: after the initial load, with no debounce timer pending, the query
\* string holds the trimmed search text, the selected version, the selected
\* values of each group and changed=1 exactly when the toggle is on; an empty
\* text or selection leaves its parameter out.
UrlMirrorsState ==
  FacetsFresh =>
    /\ url.q = trim(searchInput)
    /\ url.v = versionSelect.value
    /\ Lists(url.scopes, scopeGroup.sel)
    /\ Lists(url.topics, topicGroup.sel)
    /\ Lists(url.tiers, tierGroup.sel)
    /\ Lists(url.special, specialGroup.sel)
    /\ url.changed = (IF changedOnly THEN "1" ELSE "")

\* A settled state whose search text ends in a blank and whose URL carries the
\* trimmed text, after the timers of a search input have fired.
UrlMirrorsStateWitness ==
  /\ FacetsFresh
  /\ searchInput # trim(searchInput)
  /\ url.q = trim(searchInput)
  /\ url.q # ""
  /\ nEvents > 0

\* The topic pills of the whole dataset
AllTopics == (UNION { TopicsOf(s) : s \in RecordSet }) \ TOPIC_BLOCKLIST

KnownValues(param) ==
  CASE param = "scopes" -> AllScopes
    [] param = "topics" -> AllTopics
    [] param = "tiers" -> AllTiers
    [] param = "special" -> SeqToSet(SpecialOrder)

KeepKnown(pieces, param) ==
  SelectSeq(pieces, LAMBDA x : trim(x) \in KnownValues(param))

\* The URL `u` without what the application does not know: parameters of
\* other names, a version the dataset does not have, list values that are no
\* option of their group, a changed value other than 1
Clean(u) ==
  [ q |-> u.q,
    v |-> IF u.v \in {V1, V2} THEN u.v ELSE "",
    scopes |-> KeepKnown(u.scopes, "scopes"),
    topics |-> KeepKnown(u.topics, "topics"),
    tiers |-> KeepKnown(u.tiers, "tiers"),
    special |-> KeepKnown(u.special, "special"),
    changed |-> IF u.changed = "1" THEN "1" ELSE "",
    other |-> "",
    hash |-> u.hash,
    canon |-> u.canon ]

\* C17: the list rendered by the initial load of a URL is the list rendered
\* by the initial load of the same URL without its unknown parameters, its
\* unknown version, its list values that are not options and its changed
\* value other than 1.
MalformedParamsIgnored ==
  [][ (pc = "fetching" /\ pc' = "ready") =>
        list' = initAfterLoad(initBeforeLoad(BlankPage(Clean(url)))).list ]_vars

\* The page has loaded from a URL with an unknown parameter, which the
\* rewritten URL still carries, and shows rows.
MalformedParamsWitness ==
  /\ pc = "ready"
  /\ nEvents = 0
  /\ url.other # ""
  /\ list # << >>

ListRows == { list[i] : i \in 1..Len(list) }

Chips(row) == { row.related[i] : i \in 1..Len(row.related) }

IsAlnum(c) ==
  \E k \in 1..Len(LowerChars \o UpperChars \o DigitChars) :
     CharAt(LowerChars \o UpperChars \o DigitChars, k) = c

\* The positions of `t` that start a maximal run of non-alphanumeric
\* characters, and those that hold an alphanumeric character
RunStarts(t) ==
  { i \in 1..Len(t) : ~IsAlnum(CharAt(t, i)) /\ (i = 1 \/ IsAlnum(CharAt(t, i - 1))) }

AlnumAt(t) == { i \in 1..Len(t) : IsAlnum(CharAt(t, i)) }

\* `id` is 's-' and then `name` lowercased with every maximal run of
\* non-alphanumeric characters written as one separator character
CollapsedId(id, name) ==
  LET rest == SubSeq(id, 3, Len(id))
      low == toLowerCase(name)
      kept == AlnumAt(low) \cup RunStarts(low)
  IN  /\ SubSeq(id, 1, 2) = "s-"
      /\ Len(rest) = Cardinality(kept)
      /\ \A i \in kept :
            LET j == Cardinality({ k \in kept : k <= i })
            IN  IF IsAlnum(CharAt(low, i))
                THEN CharAt(rest, j) = CharAt(low, i)
                ELSE ~IsAlnum(CharAt(rest, j))

\* Rows of one name have one id, and a Related chip links to the id of the
\* rows of its name
IdByNameOnly ==
  /\ \A r1, r2 \in ListRows : r1.name = r2.name => r1.id = r2.id
  /\ \A r1, r2 \in ListRows :
        \A c \in Chips(r1) : c.name = r2.name => c.href = "#" \o r2.id

\* C20 as stated: every rendered row's id is 's-' followed by its name
\* lowercased with each maximal run of non-alphanumeric characters collapsed
\* to a single separator; the id depends only on the name and a Related chip
\* links to the id of the row of its name.
AnchorIdCollapsesRuns ==
  /\ \A r \in ListRows : CollapsedId(r.id, r.name)
  /\ IdByNameOnly

IdChars == "abcdefghijklmnopqrstuvwxyz0123456789_-"

KeptInId(c) == \E k \in 1..Len(IdChars) : CharAt(IdChars, k) = c

\* `id` is 's-' and then `name` lowercased, character by character, with '-'
\* in place of each character other than a-z, 0-9, '_' and '-'
ReplacedId(id, name) ==
  /\ Len(id) = Len(name) + 2
  /\ SubSeq(id, 1, 2) = "s-"
  /\ \A i \in 1..Len(name) :
        LET c == LowerChar(CharAt(name, i))
        IN  CharAt(id, i + 2) = (IF KeptInId(c) THEN c ELSE "-")

\* ReplacedId for each row a record of the document is shown as, decided once
ReplacedIdOf ==
  [ r \in { Row(s) : s \in RecordSet } |-> ReplacedId(r.id, r.name) ]

\* C20, amended: every rendered row's id is 's-' followed by its name
\* lowercased with each character other than a-z, 0-9, '_' and '-' replaced
\* by '-' (a run of such characters gives as many '-'); the id depends only on
\* the name and a Related chip links to the id of the row of its name.
AnchorIdReplacesEach ==
  /\ \A r \in ListRows : r \in DOMAIN ReplacedIdOf /\ ReplacedIdOf[r]
  /\ IdByNameOnly

\* The list shows the row of a name with capitals and a run of two dots, and
\* a row with a Related chip whose target row is shown too.
AnchorIdWitness ==
  /\ pc = "ready"
  /\ \E r \in ListRows : r.name = "merge_max_..Size" /\ r.id = "s-merge_max_--size"
  /\ \E r1, r2 \in ListRows : \E c \in Chips(r1) : c.name = r2.name /\ r1 # r2

\* The state of the filter controls
FilterState ==
  <<searchInput, versionSelect, changedOnly, scopeGroup, topicGroup, tierGroup,
    specialGroup>>

\* The URL without its fragment
QueryOf(u) == [u EXCEPT !.hash = ""]

\* C16: a step that changes the filter state adds no navigation entry; the
\* query string changes only through replaceState; replaceState is called
\* only with a URL that differs from the current one, and leaves the
\* fragment and the number of entries as they were.
HistoryReplaceOnly ==
  [][ /\ FilterState' # FilterState => history'.len = history.len
      /\ QueryOf(url') # QueryOf(url) => history'.replaced
      /\ history'.replaced =>
            /\ url' # url
            /\ url'.hash = url.hash
            /\ history'.len = history.len ]_vars

\* A handler has rewritten the URL of a page that was opened with a fragment,
\* and the fragment is still there.
HistoryReplaceWitness ==
  /\ pc = "ready"
  /\ nEvents > 0
  /\ history.replaced
  /\ url.hash = "s-max_threads"

\* Nothing of init() after the fetch has run: no control is built, no row is
\* rendered, no listener of attachEvents can have fired
NothingBuilt ==
  /\ data = NullData
  /\ versionSelect.options = << >>
  /\ scopeGroup = EmptyGroup /\ topicGroup = EmptyGroup
  /\ tierGroup = EmptyGroup /\ specialGroup = EmptyGroup
  /\ list = << >>
  /\ rendered = NotRendered

\* C18: when the dataset fetch fails (rejection, response not OK, body not
\* JSON), the failure is logged, an error message is visible in the page, and
\* no control is built, no list rendered and no filter listener registered.
FetchFailureLoud ==
  pc = "failed" =>
    /\ console # << >>
    /\ errorBanner # ""
    /\ NothingBuilt

\* C19: when writeText fails, the legacy select-and-copy path is taken; a
\* copy that neither path achieves changes no filter state and logs nothing;
\* the button shows its success title only if a path has put the link on the
\* clipboard.
ClipboardFallback ==
  [][ copy'.attempt # copy.attempt =>
        LET e == copy'.attempt
        IN  /\ (e.hasApi /\ ~e.apiOk /\ e.legacyOk) => copy'.clipboard = e.text
            /\ copy'.title = "Copied!" => copy'.clipboard = e.text
            /\ FilterState' = FilterState
            /\ console' = console ]_vars

\* C28: a click on a scope pill, plain or solo, leaves the selected version
\* as it was, and the list it renders is filtered against that version.
ScopeChangeKeepsVersion ==
  [][ lastClick'.group = "scope" =>
        /\ versionSelect'.value = versionSelect.value
        /\ rendered'.version = versionSelect.value ]_vars

\* C29: no two rows of the rendered list have the same anchor id (the names
\* of the document are unique within each scope).
AnchorIdsUnique ==
  \A i, j \in 1..Len(list) : list[i].id = list[j].id => i = j

\* C27: after the initial load and after every handler that re-renders with
\* facet recomputation, the displayed list (and so the count of the summary
\* line) is the filter predicate evaluated on the controls as the handler
\* leaves them.
ListNeverStale ==
  FacetsFresh => list = GateList(Controls, {})

\* C25: once loadData has returned, the dataset and the derived fields of
\* its records are what loadData left, whatever events have been handled.
DatasetReadOnly ==
  pc = "ready" => data = LoadedData

\* An event has been handled and the list leaves out records of the
\* displayed scopes, while the dataset still has them.
DatasetReadOnlyWitness ==
  /\ pc = "ready"
  /\ nEvents > 0
  /\ list # << >>
  /\ Len(list) < Len(combinedDataset(data, scopeGroup.sel))
  /\ Len(data.settings) = Len(SettingsJson.settings)

\* The loaded dataset put through loadData's enrichment once more
Reloaded == loadData(LoadedData)

\* C26: enriching the enriched dataset again leaves every record as it is
\* (scope tag, haystack and inferred tags recomputed, not accumulated), and
\* the controls of the last render give the same rows in the same order on it.
LoaderIdempotent ==
  (pc = "ready" /\ rendered.valid) =>
    /\ Reloaded = data
    /\ Rows(renderedItems(Reloaded, rendered)) = list

\* The page shows rows, among them one of a record with inferred tags, which
\* a second enrichment leaves as they are.
LoaderIdempotentWitness ==
  /\ pc = "ready"
  /\ rendered.valid
  /\ \E i \in 1..Len(data.settings) :
        /\ data.settings[i]._subsystems # << >>
        /\ Reloaded.settings[i]._subsystems = data.settings[i]._subsystems
        /\ Row(data.settings[i]) \in SeqToSet(list)

\* The values of list parameter `pieces` that are options, or the default
\* selection when the parameter is absent
FromUrl(pieces, options, dflt) ==
  IF pieces = << >> THEN dflt
  ELSE { trim(pieces[i]) : i \in 1..Len(pieces) } \cap options

\* C24: before the fetch has completed nothing is built or rendered; the
\* search box holds the URL's q while the fetch is awaited; the first render
\* reads the version, the facet selections and the changed-only flag of the
\* URL, applied to the controls built for the whole dataset; no click is
\* handled and no debounce timer started before that render.
LoadOrdering ==
  [][ /\ pc' \in {"start", "fetching", "failed"} =>
            /\ data' = NullData /\ list' = << >> /\ rendered' = NotRendered
            /\ scopeGroup' = EmptyGroup /\ topicGroup' = EmptyGroup
            /\ tierGroup' = EmptyGroup /\ specialGroup' = EmptyGroup
            /\ versionSelect'.options = << >>
      /\ pc' = "fetching" => searchInput' = url.q
      /\ pc # "ready" => (lastClick' = NoClick /\ quickTimer' = 0 /\ slowTimer' = 0)
      /\ (pc = "fetching" /\ pc' = "ready") =>
            /\ rendered'.valid
            /\ rendered'.version = (IF url.v \in {V1, V2} THEN url.v ELSE V1)
            /\ rendered'.scopeSel = FromUrl(url.scopes, AllScopes, AllScopes)
            /\ rendered'.selectedTopics = FromUrl(url.topics, AllTopics, AllTopics)
            /\ rendered'.selectedTiers = FromUrl(url.tiers, AllTiers, AllTiers)
            /\ rendered'.specialSel = FromUrl(url.special, SeqToSet(SpecialOrder), {})
            /\ rendered'.changedOnly = (url.changed = "1")
            /\ rendered'.raw = trim(toLowerCase(url.q)) ]_vars

\* The page has just loaded from a URL naming the older version, one tier and
\* one topic, and its first render has read them.
LoadOrderingWitness ==
  /\ pc = "ready"
  /\ nEvents = 0
  /\ rendered.valid
  /\ rendered.version = V2
  /\ rendered.selectedTiers = {"beta"}
  /\ rendered.selectedTopics = {"Merges"}
  /\ list # << >>


-----------------------------------------------------------------------------
(* The debounced search functions.                                          *)

\* The search text as renderList reads it, for each text that can be typed
rawOf == [ t \in QueryTexts |-> trim(toLowerCase(t)) ]

\* C23: each debounced function has at most one pending timer; an input
\* event leaves exactly one pending for each function, whatever was pending
\* before it; a timer that fires leaves none pending and its function works
\* from the text of the last event, so a burst causes one invocation
DebounceSupersedes ==
  [][ /\ quickTimer' <= 1
      /\ slowTimer' <= 1
      /\ searchInput' # searchInput => (quickTimer' = 1 /\ slowTimer' = 1)
      /\ quickTimer' < quickTimer =>
           (quickTimer' = 0 /\ rendered'.raw = rawOf[searchInput])
      /\ slowTimer' < slowTimer =>
           (slowTimer' = 0 /\ rendered'.raw = rawOf[searchInput]) ]_vars

\* A second input event arrived while the timers of the first were pending
DebounceSupersedesWitness ==
  /\ pc = "ready"
  /\ nEvents = 2
  /\ quickTimer = 1
  /\ slowTimer = 1
  /\ rendered.raw = ""
  /\ rawOf[searchInput] # ""


\* The facet counts are the ones the controls and the search text give
CountsReflectText ==
  \A f \in DOMAIN facetCounts : \A o \in DOMAIN facetCounts[f] :
     Len(facetCounts[f][o]) = ExpectedCount(f, o, Controls)

\* C22: when the 80 ms timer of a burst fires the list is rendered from the
\* final text and the facet counts and pills are left as they were; the
\* 280 ms timer fires only after the 80 ms one and recomputes the counts;
\* once input stops both have fired and list and counts reflect the text
TwoCadences ==
  /\ [][ /\ quickTimer' < quickTimer =>
              /\ rendered'.raw = rawOf[searchInput]
              /\ facetCounts' = facetCounts
              /\ <<scopeGroup, topicGroup, tierGroup>>'
                   = <<scopeGroup, topicGroup, tierGroup>>
         /\ slowTimer' < slowTimer =>
              /\ quickTimer = 0
              /\ rendered'.raw = rawOf[searchInput] ]_vars
  /\ [](quickTimer = 0 => list = GateList(Controls, {}))
  /\ []((quickTimer = 0 /\ slowTimer = 0) => CountsReflectText)
  /\ (quickTimer > 0 \/ slowTimer > 0)
       ~> (quickTimer = 0 /\ slowTimer = 0 /\ rendered.raw = rawOf[searchInput])

\* The list already shows the final text of a burst while the counts are
\* the ones of the text before it
TwoCadencesWitness ==
  /\ pc = "ready"
  /\ nEvents > 1
  /\ quickTimer = 0
  /\ slowTimer = 1
  /\ rendered.raw = rawOf[searchInput]
  /\ list = GateList(Controls, {})
  /\ ~CountsReflectText


-----------------------------------------------------------------------------
(* The tooltip of the pills.                                                *)

\* C30: whenever the tooltip is visible, the pill it was shown for is still
\* in its facet group: no rebuild of the group has removed that pill while
\* the tooltip was up, and the show timer has not fired for a pill that a
\* rebuild had removed
TooltipOnLivePill == tooltip.visible => tooltip.attached


-----------------------------------------------------------------------------
(* Documents without a facet container.                                     *)

\* The facet groups whose container the document lacks
AbsentGroups ==
  { g \in AllGroups :
      CASE g = "scope" -> scopeGroup = NoContainer
        [] g = "topic" -> topicGroup = NoContainer
        [] g = "tier" -> tierGroup = NoContainer
        [] g = "special" -> specialGroup = NoContainer }

\* C21: on a page that lacks one facet container, once the dataset has
\* arrived init has run to its end without throwing, handlers run, the list
\* has been rendered, and the render found the absent facet empty and
\* applied no gate for it
MissingContainerGraceful ==
  (AbsentGroups # {} /\ data.loaded) =>
     /\ pc = "ready"
     /\ rendered.valid
     /\ \A g \in AbsentGroups :
          FacetEmpty(g, rendered) /\ list = GateList(rendered, FacetGates(g))

====
